---- MODULE Spec2Model ----
(***************************************************************************)
(* Model of GPSDO_v3.c: the firmware of a GPS disciplined oscillator for   *)
(* an ATtiny841 (int is 16 bits, long is 32 bits, char is signed).         *)
(*                                                                         *)
(* The state is the firmware's globals and function statics, the position  *)
(* and locals of the foreground loop of main(), and the hardware the       *)
(* firmware drives: the DAC (a separate chip), the EEPROM trim cell and    *)
(* timer 1 with its overflow and capture flags.  Interrupt service         *)
(* routines run with interrupts disabled, so each is one atomic action;    *)
(* the foreground loop is cut into steps that make at most one access to   *)
(* a variable shared with an ISR.                                          *)
(*                                                                         *)
(* TLC's integers are 32 bits wide and it refuses to overflow, so 32-bit   *)
(* C arithmetic is carried out on 16-bit halves.  Every 32-bit quantity    *)
(* (signed or unsigned) is kept as the signed value of its bit pattern.    *)
(***************************************************************************)
EXTENDS Integers, Sequences, FiniteSets, TLC

----------------------------------------------------------------------------
(* Program constants *)

K_P == 31400
K_I == 13
DAC_SIGN == -1
PHASE_ADC_MIDPOINT == 512
EE_UPDATE_OFFSET == 75
NOMINAL_CLOCK == 10000000
SAMPLE_COUNT == 10
SAMPLE_SECONDS == 25
MAX_DELTA == 2500
DAC_MIDPOINT == 32768
EE_ERASED == 65535
HALF_PERIOD == 32768

(* Bounds of the model *)

MaxPps == 50
MaxGpsChanges == 2
MaxResets == 1
MaxIdleEdges == 1
MaxRunPps == 300
MaxDrift == 1
MaxWraps == 3
MaxSmallTicks == 4

----------------------------------------------------------------------------
(* Fixed-width arithmetic *)

W16 == 65536
INT_MIN16 == -32768

\* the low and the high 16 bits of the 32-bit pattern of x
Lo16(x) == x % W16
Hi16(x) == (x \div W16) % W16

\* the signed 32-bit value whose pattern is hi:lo
Word32(hi, lo) == IF hi >= 32768 THEN (hi - W16) * W16 + lo ELSE hi * W16 + lo

\* a + b and a - b in 32 bits, wrapping
Add32(a, b) ==
  LET lo == Lo16(a) + Lo16(b)
      hi == Hi16(a) + Hi16(b) + (lo \div W16)
  IN  Word32(hi % W16, lo % W16)

Sub32(a, b) ==
  LET lo == Lo16(a) - Lo16(b)
      hi == Hi16(a) - Hi16(b) + (lo \div W16)
  IN  Word32(hi % W16, lo % W16)

\* a * k in 32 bits, wrapping, for 0 <= k < 2^15
Mul32(a, k) ==
  LET lo == Lo16(a) * k
      hi == Hi16(a) * k + (lo \div W16)
  IN  Word32(hi % W16, lo % W16)

\* C's division, which truncates toward zero (d > 0; \div rounds down)
TruncDiv(a, d) == IF a >= 0 THEN a \div d ELSE (a + d - 1) \div d

\* conversion to int and to unsigned int (16 bits, modulo 2^16)
ToInt(x) == LET m == x % W16 IN IF m >= 32768 THEN m - W16 ELSE m
ToUInt(x) == x % W16

\* abs() takes an int: its argument is converted to 16 bits first.
\* abs(INT_MIN) is undefined: the negation either wraps back to INT_MIN or the
\* comparison that uses it is carried out on the magnitude 32768.
AbsInt(x) ==
  LET v == ToInt(x)
  IN  IF v = INT_MIN16 THEN {INT_MIN16, 32768}
      ELSE IF v < 0 THEN {-v} ELSE {v}

----------------------------------------------------------------------------
(* State *)

VARIABLES
  \* globals of the firmware
  last_dac_value, phase_error_sum, phase_error_count, sample_buffer,
  valid_samples, sample_window_pos, timer_hibits, pps_count, sample_count,
  gps_status, lock, total_error, trim_percent, last_adc_value, erroneous_delta,
  \* function statics: of ISR(TIMER1_CAPT_vect) and of the loop of main()
  last_timer_val, last_pps_count, last_sample_count,
  \* the foreground loop: its position and its locals
  pc, loc,
  \* hardware: the word the DAC chip holds, the EEPROM trim cell, timer 1
  dac_phys, ee_word, tcnt1, tov1, icr1, icf1,
  \* the environment: oscillator offset (ticks per second), counts of events
  env,
  \* serial receive: the characters of the line being received (rx_buf below
  \* rx_str_len), and the characters still on the wire
  rx_buf, rx_str_len, wire,
  \* diagnostic transmit: the ring's indices, the UDRIE0 bit, the global
  \* interrupt flag, and where the foreground is in its output
  txbuf_head, txbuf_tail, udrie, sreg_i, tx,
  \* history kept for the properties (never read by the firmware)
  obs

fwvars == <<last_dac_value, phase_error_sum, phase_error_count, sample_buffer,
            valid_samples, sample_window_pos, timer_hibits, pps_count,
            sample_count, gps_status, lock, total_error, trim_percent,
            last_adc_value, erroneous_delta, last_timer_val, last_pps_count,
            last_sample_count>>
hwvars == <<dac_phys, ee_word, tcnt1, tov1, icr1, icf1>>
rxvars == <<rx_buf, rx_str_len, wire>>
txvars == <<txbuf_head, txbuf_tail, udrie, sreg_i, tx>>
vars == <<fwvars, pc, loc, hwvars, rxvars, txvars, env, obs>>

\* what the capture ISR may write
captvars == <<sample_buffer, valid_samples, sample_window_pos, pps_count,
              sample_count, last_adc_value, erroneous_delta, last_timer_val>>
\* what handleGPS may write
gpsvars == <<gps_status, valid_samples, sample_window_pos, total_error, lock>>
\* the trim: the controlled value, the commanded word, the chip, the NV cell
trimvars == <<trim_percent, last_dac_value, dac_phys, ee_word>>
timervars == <<tcnt1, tov1, icr1, icf1, timer_hibits>>

NoLocals == [gps_ld |-> 0, sample_phase_error |-> 0, sample_drift |-> 0,
             i |-> 0, lock_new |-> 0, current_error |-> 0, te_tmp |-> 0,
             trim_value |-> 0]

\* the diagnostic output where it is not followed: boot is over, nothing
\* is queued
NoTx == [at |-> "top", todo |-> 0, buf_in_use |-> 0]

EmptyBuffer == [n \in 0..(SAMPLE_COUNT - 1) |-> 0]

----------------------------------------------------------------------------
(* writeDacValue: the transfer is skipped when the word equals the last one *)
(* commanded.  The result is <<last_dac_value, word held by the chip,       *)
(* number of transfers made>>.                                             *)

writeDacValue(last, phys, value) ==
  IF value = last THEN <<last, phys, 0>> ELSE <<value, value, 1>>

(* main(), boot: the word restored from the NV cell *)
BootTrimValue(stored) == IF stored = EE_ERASED THEN DAC_MIDPOINT ELSE stored

BootTrimPercent(trim_value) == (trim_value - DAC_MIDPOINT) * 100

----------------------------------------------------------------------------
(* Boot: main() up to sei().  Interrupts are disabled throughout, so the   *)
(* whole of it is one step.  .bss (lock, sample_buffer, the statics) is    *)
(* zeroed by the C start-up code on every reset.  The DAC chip and the     *)
(* EEPROM are not reset with the MCU: phys and stored are what they hold.  *)

NoObs == [after_unlock |-> FALSE, closed_after |-> FALSE, warm_sc |-> -1,
          saw_adv |-> FALSE, saw_valid |-> FALSE, dac_req |-> DAC_MIDPOINT,
          close |-> "none", delta |-> 0, timer_val |-> 0, hist |-> <<>>,
          requested |-> FALSE, req_changed |-> FALSE, xfer |-> 0,
          run_xfers |-> 0, wrote |-> FALSE, fix |-> 0,
          persisted |-> FALSE, caps |-> <<>>, gap |-> FALSE,
          unsent |-> 0]

\* History of a call writeDacValue(req) made with last_dac_value = last that
\* made xfer transfers: the word requested, whether it differed from
\* last_dac_value, the transfers of the current run of requests for the same
\* word, and whether the chip has been written since boot
DacObs(o, last, req, xfer) ==
  [o EXCEPT !.dac_req = req,
            !.requested = TRUE,
            !.req_changed = (req # last),
            !.xfer = xfer,
            !.run_xfers = IF o.requested /\ req = o.dac_req THEN @ + xfer
                          ELSE xfer,
            !.wrote = (@ \/ xfer = 1)]

BootDac(phys, stored) == writeDacValue(DAC_MIDPOINT, phys, BootTrimValue(stored))

BootState(phys, stored) ==
  [last_dac_value |-> BootDac(phys, stored)[1],
   dac_phys |-> BootDac(phys, stored)[2],
   ee_word |-> stored,
   trim_percent |-> BootTrimPercent(BootTrimValue(stored)),
   phase_error_sum |-> 0, phase_error_count |-> 0,
   sample_buffer |-> EmptyBuffer, valid_samples |-> -1,
   sample_window_pos |-> SAMPLE_SECONDS, timer_hibits |-> 0,
   pps_count |-> 0, sample_count |-> 0, gps_status |-> 0, lock |-> 0,
   total_error |-> 0, last_adc_value |-> PHASE_ADC_MIDPOINT,
   erroneous_delta |-> 0, last_timer_val |-> 0, last_pps_count |-> 0,
   last_sample_count |-> 0, pc |-> "top", loc |-> NoLocals,
   tcnt1 |-> 0, tov1 |-> FALSE, icr1 |-> 0, icf1 |-> FALSE,
   rx_buf |-> <<>>, rx_str_len |-> 0,
   txbuf_head |-> 0, txbuf_tail |-> 0, udrie |-> FALSE, sreg_i |-> TRUE,
   tx |-> NoTx,
   obs |-> DacObs(NoObs, DAC_MIDPOINT, BootTrimValue(stored),
                  BootDac(phys, stored)[3])]

\* the state is b (used by the initial predicates)
IsState(b) ==
  /\ last_dac_value = b.last_dac_value
  /\ dac_phys = b.dac_phys
  /\ ee_word = b.ee_word
  /\ trim_percent = b.trim_percent
  /\ phase_error_sum = b.phase_error_sum
  /\ phase_error_count = b.phase_error_count
  /\ sample_buffer = b.sample_buffer
  /\ valid_samples = b.valid_samples
  /\ sample_window_pos = b.sample_window_pos
  /\ timer_hibits = b.timer_hibits
  /\ pps_count = b.pps_count
  /\ sample_count = b.sample_count
  /\ gps_status = b.gps_status
  /\ lock = b.lock
  /\ total_error = b.total_error
  /\ last_adc_value = b.last_adc_value
  /\ erroneous_delta = b.erroneous_delta
  /\ last_timer_val = b.last_timer_val
  /\ last_pps_count = b.last_pps_count
  /\ last_sample_count = b.last_sample_count
  /\ pc = b.pc
  /\ loc = b.loc
  /\ tcnt1 = b.tcnt1
  /\ tov1 = b.tov1
  /\ icr1 = b.icr1
  /\ icf1 = b.icf1
  /\ rx_buf = b.rx_buf
  /\ rx_str_len = b.rx_str_len
  /\ wire = <<>>
  /\ txbuf_head = b.txbuf_head
  /\ txbuf_tail = b.txbuf_tail
  /\ udrie = b.udrie
  /\ sreg_i = b.sreg_i
  /\ tx = b.tx
  /\ obs = b.obs

\* the next state is b (used by Reset)
Becomes(b) ==
  /\ last_dac_value' = b.last_dac_value
  /\ dac_phys' = b.dac_phys
  /\ ee_word' = b.ee_word
  /\ trim_percent' = b.trim_percent
  /\ phase_error_sum' = b.phase_error_sum
  /\ phase_error_count' = b.phase_error_count
  /\ sample_buffer' = b.sample_buffer
  /\ valid_samples' = b.valid_samples
  /\ sample_window_pos' = b.sample_window_pos
  /\ timer_hibits' = b.timer_hibits
  /\ pps_count' = b.pps_count
  /\ sample_count' = b.sample_count
  /\ gps_status' = b.gps_status
  /\ lock' = b.lock
  /\ total_error' = b.total_error
  /\ last_adc_value' = b.last_adc_value
  /\ erroneous_delta' = b.erroneous_delta
  /\ last_timer_val' = b.last_timer_val
  /\ last_pps_count' = b.last_pps_count
  /\ last_sample_count' = b.last_sample_count
  /\ pc' = b.pc
  /\ loc' = b.loc
  /\ tcnt1' = b.tcnt1
  /\ tov1' = b.tov1
  /\ icr1' = b.icr1
  /\ icf1' = b.icf1
  /\ rx_buf' = b.rx_buf
  /\ rx_str_len' = b.rx_str_len
  /\ wire' = wire
  /\ txbuf_head' = b.txbuf_head
  /\ txbuf_tail' = b.txbuf_tail
  /\ udrie' = b.udrie
  /\ sreg_i' = b.sreg_i
  /\ tx' = b.tx
  /\ obs' = b.obs

----------------------------------------------------------------------------
(* handleGPS, after the checksum and the field parsing: gps_now_valid is 1 *)
(* when field 2 of a $GPGSA sentence is '3', else 0.  It runs inside       *)
(* ISR(USART0_RX_vect), hence uninterrupted.                               *)

\* A variant of handleGPS whose unlock branch forgets the integrator reset
\* (sensitivity of C8_UnlockResetsInOneStep to the handler)
handleGPS_KeepsIntegrator(gps_now_valid) ==
  IF gps_now_valid = gps_status % 2
  THEN /\ obs' = [obs EXCEPT !.fix = gps_now_valid]
       /\ UNCHANGED gpsvars
  ELSE /\ gps_status' = gps_now_valid
       /\ IF gps_now_valid = 0
          THEN /\ valid_samples' = -1
               /\ sample_window_pos' = SAMPLE_SECONDS
               /\ lock' = 0
               /\ obs' = [obs EXCEPT !.after_unlock = TRUE,
                                     !.closed_after = FALSE,
                                     !.hist = <<>>,
                                     !.fix = gps_now_valid,
                                     !.gap = TRUE]
               /\ UNCHANGED total_error
          ELSE /\ obs' = [obs EXCEPT !.fix = gps_now_valid]
               /\ UNCHANGED <<valid_samples, sample_window_pos,
                              total_error, lock>>

\* A variant of handleGPS whose unlock branch leaves the sample bookkeeping
\* alone (sensitivity of C23_StoredDeltaSpansLockedWindow to the handler)
handleGPS_KeepsSamples(gps_now_valid) ==
  IF gps_now_valid = gps_status % 2
  THEN /\ obs' = [obs EXCEPT !.fix = gps_now_valid]
       /\ UNCHANGED gpsvars
  ELSE /\ gps_status' = gps_now_valid
       /\ IF gps_now_valid = 0
          THEN /\ total_error' = 0
               /\ lock' = 0
               /\ obs' = [obs EXCEPT !.after_unlock = TRUE,
                                     !.closed_after = FALSE,
                                     !.hist = <<>>,
                                     !.fix = gps_now_valid,
                                     !.gap = TRUE]
               /\ UNCHANGED <<valid_samples, sample_window_pos>>
          ELSE /\ obs' = [obs EXCEPT !.fix = gps_now_valid]
               /\ UNCHANGED <<valid_samples, sample_window_pos,
                              total_error, lock>>

handleGPS(gps_now_valid) ==
  IF gps_now_valid = gps_status % 2
  THEN /\ obs' = [obs EXCEPT !.fix = gps_now_valid]
       /\ UNCHANGED gpsvars
  ELSE /\ gps_status' = gps_now_valid
       /\ IF gps_now_valid = 0
          THEN /\ valid_samples' = -1
               /\ sample_window_pos' = SAMPLE_SECONDS
               /\ total_error' = 0
               /\ lock' = 0
               /\ obs' = [obs EXCEPT !.after_unlock = TRUE,
                                     !.closed_after = FALSE,
                                     !.hist = <<>>,
                                     !.fix = gps_now_valid,
                                     !.gap = TRUE]
          ELSE /\ obs' = [obs EXCEPT !.fix = gps_now_valid]
               /\ UNCHANGED <<valid_samples, sample_window_pos,
                              total_error, lock>>

(* ISR(USART0_RX_vect) for the character that ends a checksum-valid,       *)
(* full-length $GPGSA sentence whose fix field gives gps_now_valid.        *)
USART0_RX(gps_now_valid) ==
  /\ handleGPS(gps_now_valid)
  /\ env' = IF gps_now_valid = gps_status % 2 THEN env
            ELSE [env EXCEPT !.gps_changes = @ + 1]
  /\ rx_buf' = <<>>
  /\ rx_str_len' = 0
  /\ UNCHANGED <<last_dac_value, phase_error_sum, phase_error_count,
                 sample_buffer, timer_hibits, pps_count, sample_count,
                 trim_percent, last_adc_value, erroneous_delta,
                 last_timer_val, last_pps_count, last_sample_count,
                 pc, loc, hwvars, wire, txvars>>

----------------------------------------------------------------------------
(* The serial receiver, character by character.  A character is its ASCII  *)
(* code; rx_buf is modelled below rx_str_len only (handleGPS reads no      *)
(* further than the terminator written there).                             *)

RX_BUF_LEN == 64

Dollar == 36
Star == 42
Comma == 44
CR == 13
LF == 10

RECURSIVE XorByte(_, _)
\* a ^ b on bytes
XorByte(a, b) ==
  IF a = 0 /\ b = 0 THEN 0
  ELSE ((a + b) % 2) + 2 * XorByte(a \div 2, b \div 2)

\* hexChar(): 0 for a character that is no hexadecimal digit
hexChar(c) ==
  IF c >= 48 /\ c <= 57 THEN c - 48
  ELSE IF c >= 97 /\ c <= 102 THEN c - 97 + 10
  ELSE IF c >= 65 /\ c <= 70 THEN c - 65 + 10
  ELSE 0

\* rx_buf[k]; rx_buf[rx_str_len] holds the terminator 0
At(buf, k) == IF k < Len(buf) THEN buf[k + 1] ELSE 0

RECURSIVE ChecksumLoop(_, _, _)
\* the checksum loop of handleGPS from index i on: <<i, checksum>> at its end
ChecksumLoop(buf, i, checksum) ==
  IF i >= Len(buf) \/ At(buf, i) = Star THEN <<i, checksum>>
  ELSE ChecksumLoop(buf, i + 1, XorByte(checksum, At(buf, i)))

RECURSIVE strchr(_, _, _)
\* strchr(rx_buf + ptr, c): the index of the first c at or after ptr, -1 for
\* NULL
strchr(buf, ptr, c) ==
  IF ptr >= Len(buf) THEN -1
  ELSE IF At(buf, ptr) = c THEN ptr
  ELSE strchr(buf, ptr + 1, c)

RECURSIVE SkipCommas(_, _, _)
\* the comma loops of handleGPS: ptr after n more commas, -1 when the
\* sentence has not enough of them
SkipCommas(buf, ptr, n) ==
  IF n = 0 THEN ptr
  ELSE LET q == strchr(buf, ptr, Comma)
       IN IF q = -1 THEN -1 ELSE SkipCommas(buf, q + 1, n - 1)

\* "$GPGSA"
GPGSA == <<36, 71, 80, 71, 83, 65>>

\* handleGPS down to the status comparison: gps_now_valid, or -1 when it
\* returns before (the PDOP it copies for the diagnostics is not modelled)
ParseGPGSA(buf) ==
  LET str_len == Len(buf)
      loop == ChecksumLoop(buf, 1, 0)
      i == loop[1]
      sent_checksum == 16 * hexChar(At(buf, i + 1)) + hexChar(At(buf, i + 2))
      ptr == SkipCommas(buf, 0, 2)
  IN IF str_len < 9 THEN -1
     ELSE IF i > str_len - 3 THEN -1
     ELSE IF sent_checksum # loop[2] THEN -1
     ELSE IF SubSeq(buf, 1, 6) # GPGSA THEN -1
     ELSE IF ptr = -1 THEN -1
     ELSE IF SkipCommas(buf, ptr, 13) = -1 THEN -1
     ELSE IF At(buf, ptr) = 51 THEN 1 ELSE 0

\* ISR(USART0_RX_vect) for the received character rx_char
USART0_RX_vect(rx_char) ==
  /\ IF rx_str_len = 0 /\ rx_char # Dollar
     THEN UNCHANGED <<gpsvars, rx_buf, rx_str_len, env, obs>>
     ELSE IF rx_char = CR \/ rx_char = LF
     THEN LET gps_now_valid == ParseGPGSA(rx_buf)
          IN /\ IF gps_now_valid = -1
                THEN UNCHANGED <<gpsvars, env, obs>>
                ELSE /\ handleGPS(gps_now_valid)
                     /\ env' = IF gps_now_valid = gps_status % 2 THEN env
                               ELSE [env EXCEPT !.gps_changes = @ + 1]
             /\ rx_buf' = <<>>
             /\ rx_str_len' = 0
     ELSE /\ IF rx_str_len + 1 = RX_BUF_LEN
             THEN /\ rx_buf' = <<>>
                  /\ rx_str_len' = 0
             ELSE /\ rx_buf' = Append(rx_buf, rx_char)
                  /\ rx_str_len' = rx_str_len + 1
          /\ UNCHANGED <<gpsvars, env, obs>>
  /\ UNCHANGED <<last_dac_value, phase_error_sum, phase_error_count,
                 sample_buffer, timer_hibits, pps_count, sample_count,
                 trim_percent, last_adc_value, erroneous_delta,
                 last_timer_val, last_pps_count, last_sample_count,
                 pc, loc, hwvars, txvars>>

----------------------------------------------------------------------------
(* ISR(TIMER1_CAPT_vect) *)

\* A variant of the tick composition without the local increment
\* (sensitivity of C6_CapturedTickIsTrue to the decision rule)
TimerVal_NoLocalIncrement(hibits, tov, lowbits) == Word32(hibits, lowbits)

\* the 32-bit tick built from the high half, the overflow flag and ICR1
TimerVal(hibits, tov, lowbits) ==
  Word32(IF tov /\ lowbits < HALF_PERIOD THEN (hibits + 1) % W16 ELSE hibits,
         lowbits)

\* long delta = time_span - (SAMPLE_SECONDS * NOMINAL_CLOCK)
WindowDelta(timer_val, last) ==
  Sub32(Sub32(timer_val, last), SAMPLE_SECONDS * NOMINAL_CLOCK)

\* A variant of the outlier test that also rejects while the skip is armed
\* (sensitivity of C19_WarmupConsumesAnyDelta to the second operand)
IsOutlier_AlsoWarmup(delta, vs) == {a > MAX_DELTA : a \in AbsInt(delta)}

\* abs(delta) > MAX_DELTA && valid_samples >= 0: the outcomes
IsOutlier(delta, vs) == {a > MAX_DELTA /\ vs >= 0 : a \in AbsInt(delta)}

\* History for the properties: the accepted deltas since the warm-up skip,
\* oldest first, the SAMPLE_COUNT most recent of them
Recent(hist, delta) ==
  IF Len(hist) < SAMPLE_COUNT THEN Append(hist, delta)
  ELSE Append(Tail(hist), delta)

\* A variant of the buffer update that keeps counting when the buffer is full
\* (sensitivity of C13_FillCountAndWindowPosInRange to the cap of line 269)
StoreSample_NoCap(buf, vs, delta) ==
  IF vs < 0 THEN <<buf, vs + 1>>
  ELSE IF vs < SAMPLE_COUNT
       THEN <<[buf EXCEPT ![vs] = ToInt(delta)], vs + 1>>
       ELSE <<[n \in 0..(SAMPLE_COUNT - 1) |->
                 IF n < SAMPLE_COUNT - 1 THEN buf[n + 1] ELSE ToInt(delta)],
              vs + 1>>

\* the buffer update: <<sample_buffer, valid_samples>> afterwards
StoreSample(buf, vs, delta) ==
  IF vs < 0 THEN <<buf, vs + 1>>
  ELSE IF vs < SAMPLE_COUNT
       THEN <<[buf EXCEPT ![vs] = ToInt(delta)], vs + 1>>
       ELSE <<[n \in 0..(SAMPLE_COUNT - 1) |->
                 IF n < SAMPLE_COUNT - 1 THEN buf[n + 1] ELSE ToInt(delta)],
              SAMPLE_COUNT>>

\* History of the captures: the last SAMPLE_SECONDS + 1 of them, each with
\* its timer value, whether it was taken locked, whether it closed a window
\* and whether the receiver had been unlocked since the capture before.
\* Captures older than one taken unlocked, or older than an unlocked
\* interval, are dropped: no span of locked captures reaches back to them.
SpanObs(o, timer_val, locked, close) ==
  LET cap == [tv |-> timer_val, locked |-> locked, close |-> close,
              gap |-> o.gap]
      all == IF locked /\ ~o.gap THEN Append(o.caps, cap) ELSE <<cap>>
  IN [o EXCEPT !.caps = IF Len(all) > SAMPLE_SECONDS + 1 THEN Tail(all)
                        ELSE all,
               !.gap = FALSE]

CaptISR(hibits, tov, lowbits, adc_value) ==
  LET timer_val == TimerVal(hibits, tov, lowbits)
      pos == (sample_window_pos - 1) % 256
      delta == WindowDelta(timer_val, last_timer_val)
      stored == StoreSample(sample_buffer, valid_samples, delta)
  IN
  /\ last_adc_value' = adc_value
  /\ IF gps_status % 2 = 0
     THEN /\ last_timer_val' = timer_val
          /\ obs' = SpanObs([obs EXCEPT !.timer_val = timer_val],
                            timer_val, FALSE, FALSE)
          /\ UNCHANGED <<sample_buffer, valid_samples, sample_window_pos,
                         pps_count, sample_count, erroneous_delta>>
     ELSE
       /\ pps_count' = pps_count + 1
       /\ IF pos > 0
          THEN /\ sample_window_pos' = pos
               /\ obs' = SpanObs([obs EXCEPT !.timer_val = timer_val],
                                 timer_val, TRUE, FALSE)
               /\ UNCHANGED <<sample_buffer, valid_samples, sample_count,
                              erroneous_delta, last_timer_val>>
          ELSE
            /\ sample_window_pos' = SAMPLE_SECONDS
            /\ last_timer_val' = timer_val
            /\ \E outlier \in IsOutlier(delta, valid_samples) :
                 IF outlier
                 THEN /\ erroneous_delta' = delta
                      /\ obs' = SpanObs([obs EXCEPT !.timer_val = timer_val,
                                                    !.close = "rejected",
                                                    !.delta = delta],
                                        timer_val, TRUE, TRUE)
                      /\ UNCHANGED <<sample_buffer, valid_samples, sample_count>>
                 ELSE /\ sample_buffer' = stored[1]
                      /\ valid_samples' = stored[2]
                      /\ sample_count' = sample_count + 1
                      /\ obs' = SpanObs([obs EXCEPT
                           !.timer_val = timer_val,
                           !.close = IF valid_samples < 0 THEN "warmup"
                                     ELSE "accepted",
                           !.delta = delta,
                           !.warm_sc = IF valid_samples < 0
                                       THEN sample_count + 1 ELSE @,
                           !.hist = IF valid_samples < 0 THEN @
                                    ELSE Recent(@, delta),
                           !.closed_after = obs.after_unlock],
                           timer_val, TRUE, TRUE)
                      /\ UNCHANGED erroneous_delta

----------------------------------------------------------------------------
(* The foreground loop of main(): the computations *)

\* int sample_phase_error = (int)((average_phase_error * 1000) / 512)
SamplePhaseError(sum) ==
  ToInt(TruncDiv(Mul32(TruncDiv(sum, SAMPLE_SECONDS), 1000),
                 PHASE_ADC_MIDPOINT))

\* A variant of the drift scaling without the decimal digit
\* (sensitivity of C14_CurveOfConstantDelta to line 647)
SampleDrift_Unscaled(sum) == TruncDiv(sum, SAMPLE_COUNT)

\* sample_drift = sample_drift * 10 / SAMPLE_COUNT
SampleDrift(sum) == TruncDiv(Mul32(sum, 10), SAMPLE_COUNT)

\* A variant of the grading with the two best grades exchanged
\* (sensitivity of C12_LockGradeFromDrift to the thresholds)
LockGrade_SwapsBest(vs, sample_drift) ==
  { IF vs < SAMPLE_COUNT THEN 0
    ELSE IF a < 1250
         THEN (IF a < 125 THEN (IF a < 25 THEN 2 ELSE 3) ELSE 1)
         ELSE 0 : a \in AbsInt(sample_drift) }

\* the lock grade for a fill count and a drift: the outcomes
LockGrade(vs, sample_drift) ==
  { IF vs < SAMPLE_COUNT THEN 0
    ELSE IF a < 1250
         THEN (IF a < 125 THEN (IF a < 25 THEN 3 ELSE 2) ELSE 1)
         ELSE 0 : a \in AbsInt(sample_drift) }

\* long current_error = 10 * sample_drift + (sample_phase_error / 14)
CurrentError(sample_drift, sample_phase_error) ==
  Add32(Mul32(sample_drift, 10), TruncDiv(sample_phase_error, 14))

\* long adj_val = DAC_SIGN * ((current_error * K_P) + (total_error * K_I)) / 10000
\* in 32-bit long arithmetic; a signed overflow wraps, as the AVR's multiply
\* and add routines make it
AdjVal(current_error, te) ==
  LET inner == Add32(Mul32(current_error, K_P), Mul32(te, K_I))
      signed == IF DAC_SIGN = -1 THEN Sub32(0, inner) ELSE inner
  IN  TruncDiv(signed, 10000)

\* unsigned int trim_value = (int)(trim_percent / 100) + 0x8000
TrimValue(tp) == ToUInt(ToInt(TruncDiv(tp, 100)) + DAC_MIDPOINT)

\* abs(current_error) < 100 &&
\*   abs(eeprom_read_word(EE_TRIM_LOC) - trim_value) > EE_UPDATE_OFFSET:
\* the outcomes.  The difference is an unsigned int, converted to int by abs.
EEGate(current_error, stored, trim_value) ==
  { a < 100 /\ b > EE_UPDATE_OFFSET :
      a \in AbsInt(current_error), b \in AbsInt(ToUInt(stored - trim_value)) }

----------------------------------------------------------------------------
(* The foreground loop of main(), one action per step.  A step makes at    *)
(* most one access to a variable that an ISR writes; the LED code between  *)
(* lines 555 and 577 only reads and is left out.                           *)

\* x | 0x2
Or2(x) == IF (x \div 2) % 2 = 1 THEN x ELSE x + 2

\* line 545: if (!(gps_status & 0x2))
Fg_top ==
  /\ pc = "top"
  /\ pc' = IF (gps_status \div 2) % 2 = 0 THEN "flag_ld" ELSE "pps"
  /\ UNCHANGED <<last_dac_value, phase_error_sum, phase_error_count,
                 sample_buffer, valid_samples, sample_window_pos,
                 timer_hibits, pps_count, sample_count, gps_status, lock,
                 total_error, trim_percent, last_adc_value, erroneous_delta,
                 last_timer_val, last_pps_count, last_sample_count, loc,
                 dac_phys, ee_word, tcnt1, tov1, icr1, icf1, env, obs,
                 rxvars, txvars>>

\* line 546, gps_status |= 0x2: the load
Fg_flag_ld ==
  /\ pc = "flag_ld"
  /\ loc' = [loc EXCEPT !.gps_ld = gps_status]
  /\ pc' = "flag_st"
  /\ UNCHANGED <<last_dac_value, phase_error_sum, phase_error_count,
                 sample_buffer, valid_samples, sample_window_pos,
                 timer_hibits, pps_count, sample_count, gps_status, lock,
                 total_error, trim_percent, last_adc_value, erroneous_delta,
                 last_timer_val, last_pps_count, last_sample_count, dac_phys,
                 ee_word, tcnt1, tov1, icr1, icf1, env, obs, rxvars, txvars>>

\* line 546, gps_status |= 0x2: the store
Fg_flag_st ==
  /\ pc = "flag_st"
  /\ gps_status' = Or2(loc.gps_ld)
  /\ loc' = NoLocals
  /\ pc' = "flag_log"
  /\ UNCHANGED <<last_dac_value, phase_error_sum, phase_error_count,
                 sample_buffer, valid_samples, sample_window_pos,
                 timer_hibits, pps_count, sample_count, lock, total_error,
                 trim_percent, last_adc_value, erroneous_delta,
                 last_timer_val, last_pps_count, last_sample_count, dac_phys,
                 ee_word, tcnt1, tov1, icr1, icf1, env, obs, rxvars, txvars>>

\* lines 547-551: G_LK or G_UN is queued for the diagnostic port
Fg_flag_log ==
  /\ pc = "flag_log"
  /\ pc' = "pps"
  /\ UNCHANGED <<last_dac_value, phase_error_sum, phase_error_count,
                 sample_buffer, valid_samples, sample_window_pos,
                 timer_hibits, pps_count, sample_count, gps_status, lock,
                 total_error, trim_percent, last_adc_value, erroneous_delta,
                 last_timer_val, last_pps_count, last_sample_count, loc,
                 dac_phys, ee_word, tcnt1, tov1, icr1, icf1, env, obs,
                 rxvars, txvars>>

\* line 580: if (last_pps_count == pps_count) continue
Fg_pps ==
  /\ pc = "pps"
  /\ pc' = IF last_pps_count = pps_count THEN "top" ELSE "pps_st"
  /\ UNCHANGED <<last_dac_value, phase_error_sum, phase_error_count,
                 sample_buffer, valid_samples, sample_window_pos,
                 timer_hibits, pps_count, sample_count, gps_status, lock,
                 total_error, trim_percent, last_adc_value, erroneous_delta,
                 last_timer_val, last_pps_count, last_sample_count, loc,
                 dac_phys, ee_word, tcnt1, tov1, icr1, icf1, env, obs,
                 rxvars, txvars>>

\* line 581: last_pps_count = pps_count
Fg_pps_st ==
  /\ pc = "pps_st"
  /\ last_pps_count' = pps_count
  /\ pc' = "err"
  /\ UNCHANGED <<last_dac_value, phase_error_sum, phase_error_count,
                 sample_buffer, valid_samples, sample_window_pos,
                 timer_hibits, pps_count, sample_count, gps_status, lock,
                 total_error, trim_percent, last_adc_value, erroneous_delta,
                 last_timer_val, last_sample_count, loc, dac_phys, ee_word,
                 tcnt1, tov1, icr1, icf1, env, obs, rxvars, txvars>>

\* line 583: if (erroneous_delta != 0)
Fg_err ==
  /\ pc = "err"
  /\ pc' = IF erroneous_delta # 0 THEN "err_clr" ELSE "phase"
  /\ UNCHANGED <<last_dac_value, phase_error_sum, phase_error_count,
                 sample_buffer, valid_samples, sample_window_pos,
                 timer_hibits, pps_count, sample_count, gps_status, lock,
                 total_error, trim_percent, last_adc_value, erroneous_delta,
                 last_timer_val, last_pps_count, last_sample_count, loc,
                 dac_phys, ee_word, tcnt1, tov1, icr1, icf1, env, obs,
                 rxvars, txvars>>

\* A variant of the report step that leaves erroneous_delta set
\* (sensitivity of C10_RejectedWindowLeavesLoopState to the report)
Fg_err_clr_KeepsFlag ==
  /\ pc = "err_clr"
  /\ pc' = "top"
  /\ UNCHANGED <<fwvars, loc, hwvars, env, obs, rxvars, txvars>>

\* lines 587-593: XXX=<delta> is queued; erroneous_delta = 0; continue
Fg_err_clr ==
  /\ pc = "err_clr"
  /\ erroneous_delta' = 0
  /\ pc' = "top"
  /\ UNCHANGED <<last_dac_value, phase_error_sum, phase_error_count,
                 sample_buffer, valid_samples, sample_window_pos,
                 timer_hibits, pps_count, sample_count, gps_status, lock,
                 total_error, trim_percent, last_adc_value, last_timer_val,
                 last_pps_count, last_sample_count, loc, dac_phys, ee_word,
                 tcnt1, tov1, icr1, icf1, env, obs, rxvars, txvars>>

\* lines 605-608: the phase reading of this PPS is accumulated
Fg_phase ==
  /\ pc = "phase"
  /\ phase_error_sum' =
       Add32(phase_error_sum, ToInt(PHASE_ADC_MIDPOINT - last_adc_value))
  /\ phase_error_count' = ToInt(phase_error_count + 1)
  /\ pc' = "smp"
  /\ UNCHANGED <<last_dac_value, sample_buffer, valid_samples,
                 sample_window_pos, timer_hibits, pps_count, sample_count,
                 gps_status, lock, total_error, trim_percent, last_adc_value,
                 erroneous_delta, last_timer_val, last_pps_count,
                 last_sample_count, loc, dac_phys, ee_word, tcnt1, tov1,
                 icr1, icf1, env, obs, rxvars, txvars>>

\* line 611: if (last_sample_count == sample_count) continue
Fg_smp ==
  /\ pc = "smp"
  /\ pc' = IF last_sample_count = sample_count THEN "top" ELSE "smp_st"
  /\ obs' = [obs EXCEPT !.saw_adv = (last_sample_count # sample_count)]
  /\ UNCHANGED <<last_dac_value, phase_error_sum, phase_error_count,
                 sample_buffer, valid_samples, sample_window_pos,
                 timer_hibits, pps_count, sample_count, gps_status, lock,
                 total_error, trim_percent, last_adc_value, erroneous_delta,
                 last_timer_val, last_pps_count, last_sample_count, loc,
                 dac_phys, ee_word, tcnt1, tov1, icr1, icf1, env, rxvars,
                 txvars>>

\* lines 612-621: the window update begins; the phase accumulator is closed
Fg_smp_st ==
  /\ pc = "smp_st"
  /\ last_sample_count' = sample_count
  /\ loc' = [loc EXCEPT
       !.sample_phase_error = SamplePhaseError(phase_error_sum),
       !.sample_drift = 0, !.i = 0]
  /\ phase_error_sum' = 0
  /\ phase_error_count' = 0
  /\ obs' = [obs EXCEPT
       !.after_unlock = IF obs.closed_after THEN FALSE ELSE @]
  /\ pc' = "sum"
  /\ UNCHANGED <<last_dac_value, sample_buffer, valid_samples,
                 sample_window_pos, timer_hibits, pps_count, sample_count,
                 gps_status, lock, total_error, trim_percent, last_adc_value,
                 erroneous_delta, last_timer_val, last_pps_count, dac_phys,
                 ee_word, tcnt1, tov1, icr1, icf1, env, rxvars, txvars>>

\* line 622, the loop test i < valid_samples; after the loop, line 647
Fg_sum ==
  /\ pc = "sum"
  /\ IF loc.i < valid_samples
     THEN /\ pc' = "sum_rd"
          /\ loc' = loc
     ELSE /\ pc' = "cls"
          /\ loc' = [loc EXCEPT !.sample_drift = SampleDrift(@), !.i = 0]
  /\ UNCHANGED <<last_dac_value, phase_error_sum, phase_error_count,
                 sample_buffer, valid_samples, sample_window_pos,
                 timer_hibits, pps_count, sample_count, gps_status, lock,
                 total_error, trim_percent, last_adc_value, erroneous_delta,
                 last_timer_val, last_pps_count, last_sample_count, dac_phys,
                 ee_word, tcnt1, tov1, icr1, icf1, env, obs, rxvars, txvars>>

\* line 623: sample_drift += sample_buffer[i]
Fg_sum_rd ==
  /\ pc = "sum_rd"
  /\ loc' = [loc EXCEPT !.sample_drift = Add32(@, sample_buffer[loc.i]),
                        !.i = @ + 1]
  /\ pc' = "sum"
  /\ UNCHANGED <<last_dac_value, phase_error_sum, phase_error_count,
                 sample_buffer, valid_samples, sample_window_pos,
                 timer_hibits, pps_count, sample_count, gps_status, lock,
                 total_error, trim_percent, last_adc_value, erroneous_delta,
                 last_timer_val, last_pps_count, last_sample_count, dac_phys,
                 ee_word, tcnt1, tov1, icr1, icf1, env, obs, rxvars, txvars>>

\* lines 651-662: the grade is decided from valid_samples and sample_drift
Fg_cls ==
  /\ pc = "cls"
  /\ \E grade \in LockGrade(valid_samples, loc.sample_drift) :
       loc' = [loc EXCEPT !.lock_new = grade]
  /\ pc' = "cls_st"
  /\ UNCHANGED <<last_dac_value, phase_error_sum, phase_error_count,
                 sample_buffer, valid_samples, sample_window_pos,
                 timer_hibits, pps_count, sample_count, gps_status, lock,
                 total_error, trim_percent, last_adc_value, erroneous_delta,
                 last_timer_val, last_pps_count, last_sample_count, dac_phys,
                 ee_word, tcnt1, tov1, icr1, icf1, env, obs, rxvars, txvars>>

\* lines 652-662: the store to lock
Fg_cls_st ==
  /\ pc = "cls_st"
  /\ lock' = loc.lock_new
  /\ loc' = [loc EXCEPT !.lock_new = 0]
  /\ pc' = "chk"
  /\ UNCHANGED <<last_dac_value, phase_error_sum, phase_error_count,
                 sample_buffer, valid_samples, sample_window_pos,
                 timer_hibits, pps_count, sample_count, gps_status,
                 total_error, trim_percent, last_adc_value, erroneous_delta,
                 last_timer_val, last_pps_count, last_sample_count, dac_phys,
                 ee_word, tcnt1, tov1, icr1, icf1, env, obs, rxvars, txvars>>

\* A variant of the validity test that lets an empty buffer through
\* (sensitivity of C7_UpdateOnlyForValidWindow to the test of line 665)
Fg_chk_SkipsOnlyNegative ==
  /\ pc = "chk"
  /\ IF valid_samples < 0
     THEN /\ pc' = "top"
          /\ loc' = NoLocals
          /\ obs' = [obs EXCEPT !.saw_adv = FALSE, !.saw_valid = FALSE]
     ELSE /\ pc' = "te_ld"
          /\ loc' = [loc EXCEPT !.current_error =
                       CurrentError(loc.sample_drift, loc.sample_phase_error),
                       !.sample_drift = 0, !.sample_phase_error = 0]
          /\ obs' = [obs EXCEPT !.saw_valid = (valid_samples >= 1)]
  /\ UNCHANGED <<last_dac_value, phase_error_sum, phase_error_count,
                 sample_buffer, valid_samples, sample_window_pos,
                 timer_hibits, pps_count, sample_count, gps_status, lock,
                 total_error, trim_percent, last_adc_value, erroneous_delta,
                 last_timer_val, last_pps_count, last_sample_count, dac_phys,
                 ee_word, tcnt1, tov1, icr1, icf1, env, rxvars, txvars>>

\* line 665: if (valid_samples <= 0) continue; line 673
Fg_chk ==
  /\ pc = "chk"
  /\ IF valid_samples <= 0
     THEN /\ pc' = "top"
          /\ loc' = NoLocals
          /\ obs' = [obs EXCEPT !.saw_adv = FALSE, !.saw_valid = FALSE]
     ELSE /\ pc' = "te_ld"
          /\ loc' = [loc EXCEPT !.current_error =
                       CurrentError(loc.sample_drift, loc.sample_phase_error),
                       !.sample_drift = 0, !.sample_phase_error = 0]
          /\ obs' = [obs EXCEPT !.saw_valid = (valid_samples >= 1)]
  /\ UNCHANGED <<last_dac_value, phase_error_sum, phase_error_count,
                 sample_buffer, valid_samples, sample_window_pos,
                 timer_hibits, pps_count, sample_count, gps_status, lock,
                 total_error, trim_percent, last_adc_value, erroneous_delta,
                 last_timer_val, last_pps_count, last_sample_count, dac_phys,
                 ee_word, tcnt1, tov1, icr1, icf1, env, rxvars, txvars>>

\* line 683, total_error += current_error: the load and the addition
Fg_te_ld ==
  /\ pc = "te_ld"
  /\ loc' = [loc EXCEPT !.te_tmp = Add32(total_error, loc.current_error)]
  /\ pc' = "te_st"
  /\ UNCHANGED <<last_dac_value, phase_error_sum, phase_error_count,
                 sample_buffer, valid_samples, sample_window_pos,
                 timer_hibits, pps_count, sample_count, gps_status, lock,
                 total_error, trim_percent, last_adc_value, erroneous_delta,
                 last_timer_val, last_pps_count, last_sample_count, dac_phys,
                 ee_word, tcnt1, tov1, icr1, icf1, env, obs, rxvars, txvars>>

\* line 683, total_error += current_error: the store
Fg_te_st ==
  /\ pc = "te_st"
  /\ total_error' = loc.te_tmp
  /\ loc' = [loc EXCEPT !.te_tmp = 0]
  /\ pc' = "pi"
  /\ UNCHANGED <<last_dac_value, phase_error_sum, phase_error_count,
                 sample_buffer, valid_samples, sample_window_pos,
                 timer_hibits, pps_count, sample_count, gps_status, lock,
                 trim_percent, last_adc_value, erroneous_delta,
                 last_timer_val, last_pps_count, last_sample_count, dac_phys,
                 ee_word, tcnt1, tov1, icr1, icf1, env, obs, rxvars, txvars>>

\* lines 685-690: the adjustment (total_error is read again), the new trim
\* and the word handed to writeDacValue
Fg_pi ==
  LET adj_val == AdjVal(loc.current_error, total_error)
      tp == Sub32(trim_percent, adj_val)
      trim_value == TrimValue(tp)
      dac == writeDacValue(last_dac_value, dac_phys, trim_value)
  IN
  /\ pc = "pi"
  /\ trim_percent' = tp
  /\ last_dac_value' = dac[1]
  /\ dac_phys' = dac[2]
  /\ loc' = [loc EXCEPT !.trim_value = trim_value]
  /\ obs' = DacObs(obs, last_dac_value, trim_value, dac[3])
  /\ pc' = "ee"
  /\ UNCHANGED <<phase_error_sum, phase_error_count, sample_buffer,
                 valid_samples, sample_window_pos, timer_hibits, pps_count,
                 sample_count, gps_status, lock, total_error, last_adc_value,
                 erroneous_delta, last_timer_val, last_pps_count,
                 last_sample_count, ee_word, tcnt1, tov1, icr1, icf1, env,
                 rxvars, txvars>>

\* lines 718-723: the NV trim word is written when the gate passes
Fg_ee ==
  /\ pc = "ee"
  /\ \E gate \in EEGate(loc.current_error, ee_word, loc.trim_value) :
       /\ ee_word' = IF gate THEN loc.trim_value ELSE ee_word
       /\ obs' = [obs EXCEPT !.saw_adv = FALSE, !.saw_valid = FALSE,
                             !.persisted = @ \/ gate]
  /\ loc' = NoLocals
  /\ pc' = "top"
  /\ UNCHANGED <<last_dac_value, phase_error_sum, phase_error_count,
                 sample_buffer, valid_samples, sample_window_pos,
                 timer_hibits, pps_count, sample_count, gps_status, lock,
                 total_error, trim_percent, last_adc_value, erroneous_delta,
                 last_timer_val, last_pps_count, last_sample_count, dac_phys,
                 tcnt1, tov1, icr1, icf1, env, rxvars, txvars>>

Foreground ==
  \/ Fg_top \/ Fg_flag_ld \/ Fg_flag_st \/ Fg_flag_log
  \/ Fg_pps \/ Fg_pps_st \/ Fg_err \/ Fg_err_clr \/ Fg_phase
  \/ Fg_smp \/ Fg_smp_st \/ Fg_sum \/ Fg_sum_rd \/ Fg_cls \/ Fg_cls_st
  \/ Fg_chk \/ Fg_te_ld \/ Fg_te_st \/ Fg_pi \/ Fg_ee

----------------------------------------------------------------------------
(* The environment of the discipline loop *)

NoEnv == [stored |-> EE_ERASED, rate |-> 0, adc |-> PHASE_ADC_MIDPOINT,
          drifts |-> 0, gps_changes |-> 0, resets |-> 0, edges |-> 0,
          idle |-> 0, true_hi |-> 0, cap_hi |-> 0, cap_age |-> 0,
          ovf_age |-> 0, small_ticks |-> 0]

\* What a run is given: the word the NV trim cell holds at power-on, the
\* oscillator's offset in ticks per second and the phase detector's reading.
Scenarios ==
  { [NoEnv EXCEPT !.stored = 65535, !.rate = -4, !.adc = 500],
    [NoEnv EXCEPT !.stored = 32512, !.rate = 120, !.adc = 512] }

ResetCauses == {"PORF", "EXTRF", "BORF", "WDRF"}

\* the word the DAC chip holds when the MCU leaves reset: it powers up at
\* mid-scale, and keeps its word over a reset of the MCU alone; a brown-out
\* may or may not have reached it
DacAfterReset(cause) ==
  CASE cause = "PORF" -> {DAC_MIDPOINT}
    [] cause = "BORF" -> {DAC_MIDPOINT, dac_phys}
    [] OTHER -> {dac_phys}

Reset(cause) ==
  /\ env.resets < MaxResets
  /\ \E phys \in DacAfterReset(cause) : Becomes(BootState(phys, ee_word))
  /\ env' = [env EXCEPT !.resets = @ + 1, !.gps_changes = 0, !.edges = 0,
                        !.idle = 0]

\* where the foreground is while it waits for the next PPS edge
PollPcs == {"top", "flag_ld", "flag_st", "flag_log", "pps"}

\* A PPS edge, with the capture ISR that serves it.  The timer has run for
\* one second of the oscillator, and every overflow in it has been served.
\* An edge comes a second after the last one; the watchdog (WDTO_500MS,
\* petted at the top of the loop) bounds a pass by half a second, so by then
\* the foreground has finished the pass that noticed the last edge.
PpsEdgeOf(max_edges) ==
  LET t == Add32(Word32(timer_hibits, tcnt1), NOMINAL_CLOCK + env.rate)
  IN
  /\ IF gps_status % 2 = 1 THEN env.edges < max_edges
                           ELSE env.idle < MaxIdleEdges
  /\ last_pps_count = pps_count
  /\ pc \in PollPcs
  /\ timer_hibits' = Hi16(t)
  /\ tcnt1' = Lo16(t)
  /\ icr1' = Lo16(t)
  /\ CaptISR(Hi16(t), FALSE, Lo16(t), env.adc)
  /\ env' = IF gps_status % 2 = 1 THEN [env EXCEPT !.edges = @ + 1]
                                  ELSE [env EXCEPT !.idle = @ + 1]
  /\ UNCHANGED <<last_dac_value, phase_error_sum, phase_error_count,
                 gps_status, lock, total_error, trim_percent, last_pps_count,
                 last_sample_count, pc, loc, dac_phys, ee_word, tov1, icf1,
                 rxvars, txvars>>

PpsEdge == PpsEdgeOf(MaxPps)

\* A $GPGSA sentence completes; the number of status changes is bounded.
GpsSentence(gps_now_valid) ==
  /\ (gps_now_valid # gps_status % 2) => env.gps_changes < MaxGpsChanges
  /\ USART0_RX(gps_now_valid)

Init ==
  \E scenario \in Scenarios :
    /\ IsState(BootState(DAC_MIDPOINT, scenario.stored))
    /\ env = scenario

Next ==
  \/ Foreground
  \/ PpsEdge
  \/ \E gps_now_valid \in {0, 1} : GpsSentence(gps_now_valid)
  \/ \E cause \in ResetCauses : Reset(cause)

Spec == Init /\ [][Next]_vars

----------------------------------------------------------------------------
(* Long runs: the receiver locks once, the foreground finishes its pass    *)
(* before the next PPS edge (a pass takes well under the second between    *)
(* two edges), and the oscillator's offset changes at most MaxDrift times, *)
(* at the start of a window.                                               *)

RunScenarios ==
  { [NoEnv EXCEPT !.stored = 65535, !.rate = 100, !.adc = 512],
    [NoEnv EXCEPT !.stored = 65535, !.rate = 4, !.adc = 512],
    [NoEnv EXCEPT !.stored = 65535, !.rate = 0, !.adc = 512],
    [NoEnv EXCEPT !.stored = 65535, !.rate = 120, !.adc = 500],
    [NoEnv EXCEPT !.stored = 3, !.rate = -4, !.adc = 500],
    [NoEnv EXCEPT !.stored = 32512, !.rate = 2622, !.adc = 512] }

DriftRates == {4, 62}

RunInit ==
  \E scenario \in RunScenarios :
    /\ IsState(BootState(DAC_MIDPOINT, scenario.stored))
    /\ env = scenario

RunLock ==
  /\ pc = "top"
  /\ gps_status % 2 = 0
  /\ env.gps_changes < MaxGpsChanges
  /\ USART0_RX(1)

\* the receiver loses its fix once the buffer has filled, between two windows
RunUnlock ==
  /\ pc = "top"
  /\ last_pps_count = pps_count
  /\ gps_status % 2 = 1
  /\ valid_samples = SAMPLE_COUNT
  /\ sample_window_pos = SAMPLE_SECONDS
  /\ env.gps_changes < MaxGpsChanges
  /\ USART0_RX(0)

\* the MCU is reset once the buffer has filled, between two windows; the
\* run goes on
RunReset(cause) ==
  /\ pc = "top"
  /\ last_pps_count = pps_count
  /\ valid_samples = SAMPLE_COUNT
  /\ sample_window_pos = SAMPLE_SECONDS
  /\ env.resets < MaxResets
  /\ \E phys \in DacAfterReset(cause) : Becomes(BootState(phys, ee_word))
  /\ env' = [env EXCEPT !.resets = @ + 1, !.gps_changes = 0, !.idle = 0]

RunPpsEdge ==
  /\ pc = "top"
  /\ (gps_status \div 2) % 2 = 1
  /\ PpsEdgeOf(MaxRunPps)

Drift(rate) ==
  /\ pc = "top"
  /\ last_pps_count = pps_count
  /\ sample_window_pos = SAMPLE_SECONDS
  /\ valid_samples >= 0
  /\ env.drifts < MaxDrift
  /\ rate # env.rate
  /\ env' = [env EXCEPT !.rate = rate, !.drifts = @ + 1]
  /\ UNCHANGED <<fwvars, pc, loc, hwvars, obs, rxvars, txvars>>

RunNext ==
  \/ Foreground
  \/ RunLock
  \/ RunUnlock
  \/ \E cause \in ResetCauses : RunReset(cause)
  \/ RunPpsEdge
  \/ \E rate \in DriftRates : Drift(rate)

SpecRun == RunInit /\ [][RunNext]_vars


----------------------------------------------------------------------------
(* Timer 1 and its two interrupts.  TCNT1 counts oscillator ticks modulo   *)
(* 2^16; a wrap sets TOV1, a PPS edge latches TCNT1 into ICR1 and sets     *)
(* ICF1.  Both interrupts are enabled (TIMSK1), the capture vector has the *)
(* higher priority, and an ISR runs with interrupts disabled.  env.true_hi *)
(* counts the wraps that really happened, env.cap_hi the wraps that had    *)
(* happened when ICR1 was latched.                                         *)

TickSteps == {1, 16383}

\* The counter advances by d ticks.  No interrupt stays pending for half a
\* counter period.
Tick(d) ==
  LET sum == tcnt1 + d
      wrapped == sum >= W16
  IN
  /\ icf1 => env.cap_age + d < HALF_PERIOD
  /\ tov1 => env.ovf_age + d < HALF_PERIOD
  /\ wrapped => env.true_hi < MaxWraps
  /\ d = 1 => env.small_ticks < MaxSmallTicks
  /\ tcnt1' = sum % W16
  /\ tov1' = (tov1 \/ wrapped)
  /\ env' = [env EXCEPT
       !.true_hi = IF wrapped THEN @ + 1 ELSE @,
       !.cap_age = IF icf1 THEN @ + d ELSE 0,
       !.ovf_age = IF wrapped THEN sum - W16
                   ELSE IF tov1 THEN @ + d ELSE 0,
       !.small_ticks = IF d = 1 THEN @ + 1 ELSE @]
  /\ UNCHANGED <<last_dac_value, phase_error_sum, phase_error_count,
                 sample_buffer, valid_samples, sample_window_pos,
                 timer_hibits, pps_count, sample_count, gps_status, lock,
                 total_error, trim_percent, last_adc_value, erroneous_delta,
                 last_timer_val, last_pps_count, last_sample_count, pc, loc,
                 dac_phys, ee_word, icr1, icf1, obs, rxvars, txvars>>

\* A rising PPS edge: the input capture unit latches the counter.
PpsCapture ==
  /\ ~icf1
  /\ icr1' = tcnt1
  /\ icf1' = TRUE
  /\ env' = [env EXCEPT !.cap_hi = env.true_hi, !.cap_age = 0]
  /\ UNCHANGED <<last_dac_value, phase_error_sum, phase_error_count,
                 sample_buffer, valid_samples, sample_window_pos,
                 timer_hibits, pps_count, sample_count, gps_status, lock,
                 total_error, trim_percent, last_adc_value, erroneous_delta,
                 last_timer_val, last_pps_count, last_sample_count, pc, loc,
                 dac_phys, ee_word, tcnt1, tov1, obs, rxvars, txvars>>

\* ISR(TIMER1_OVF_vect), entered when no capture interrupt is pending;
\* the hardware clears TOV1 on entry.
TIMER1_OVF ==
  /\ tov1
  /\ ~icf1
  /\ timer_hibits' = (timer_hibits + 1) % W16
  /\ tov1' = FALSE
  /\ env' = [env EXCEPT !.ovf_age = 0]
  /\ UNCHANGED <<last_dac_value, phase_error_sum, phase_error_count,
                 sample_buffer, valid_samples, sample_window_pos, pps_count,
                 sample_count, gps_status, lock, total_error, trim_percent,
                 last_adc_value, erroneous_delta, last_timer_val,
                 last_pps_count, last_sample_count, pc, loc, dac_phys,
                 ee_word, tcnt1, icr1, icf1, obs, rxvars, txvars>>

\* ISR(TIMER1_CAPT_vect); the hardware clears ICF1 on entry.
TIMER1_CAPT ==
  /\ icf1
  /\ CaptISR(timer_hibits, tov1, icr1, env.adc)
  /\ icf1' = FALSE
  /\ env' = [env EXCEPT !.cap_age = 0]
  /\ UNCHANGED <<timer_hibits, phase_error_sum, phase_error_count, gps_status,
                 lock, total_error, trimvars, last_pps_count,
                 last_sample_count, pc, loc, tcnt1, tov1, icr1, rxvars,
                 txvars>>

TimerInit ==
  /\ IsState(BootState(DAC_MIDPOINT, EE_ERASED))
  /\ env = NoEnv

TimerNext ==
  \/ \E d \in TickSteps : Tick(d)
  \/ PpsCapture
  \/ TIMER1_OVF
  \/ TIMER1_CAPT

SpecTimer == TimerInit /\ [][TimerNext]_vars


----------------------------------------------------------------------------
(* Sentences on the serial line.  Whole lines arrive between two windows,  *)
(* each followed by CR LF: two $GPGSA sentences (fix modes 3 and 1), every *)
(* line that differs from one of them in one character or is cut short,    *)
(* and a few others.                                                       *)

MaxRxPps == 50

Asc(c) ==
  CASE c = "$" -> 36 [] c = "*" -> 42 [] c = "," -> 44 [] c = "." -> 46
    [] c = "0" -> 48 [] c = "1" -> 49 [] c = "2" -> 50 [] c = "3" -> 51
    [] c = "4" -> 52 [] c = "5" -> 53 [] c = "6" -> 54 [] c = "7" -> 55
    [] c = "8" -> 56 [] c = "9" -> 57 [] c = "A" -> 65 [] c = "B" -> 66
    [] c = "F" -> 70 [] c = "G" -> 71 [] c = "P" -> 80 [] c = "S" -> 83

Bytes(line) == [k \in 1..Len(line) |-> Asc(line[k])]

Fix3D ==
  Bytes(
  <<"$", "G", "P", "G", "S", "A", ",", "A", ",", "3", ",", "7", ",", ",",
    ",", ",", ",", ",", ",", ",", ",", ",", ",", ",", "1", ".", "5", ",",
    "1", ",", "1", "*", "0", "1">>)

NoFix ==
  Bytes(
  <<"$", "G", "P", "G", "S", "A", ",", "A", ",", "1", ",", "7", ",", ",",
    ",", ",", ",", ",", ",", ",", ",", ",", ",", ",", "1", ".", "5", ",",
    "1", ",", "1", "*", "0", "3">>)

\* a sentence of another kind, and a $GPGSA without fields, both with their
\* checksums
OtherLines ==
  { Bytes(
  <<"$", "G", "P", "G", "G", "A", ",", "1", "*", "4", "B">>),
    Bytes(
  <<"$", "G", "P", "G", "S", "A", ",", "A", "*", "2", "F">>) }

\* a sentence with twelve satellites: 64 characters, the size of rx_buf
LongLine ==
  Bytes(
  <<"$", "G", "P", "G", "S", "A", ",", "A", ",", "3", ",", "0", "1", ",",
    "0", "2", ",", "0", "3", ",", "0", "4", ",", "0", "5", ",", "0", "6",
    ",", "0", "7", ",", "0", "8", ",", "0", "9", ",", "1", "0", ",", "1",
    "1", ",", "1", "2", ",", "1", ".", "6", "1", ",", "1", ".", "3", "3",
    ",", "0", ".", "9", "0", "*", "0", "F">>)

\* the characters a transmission error puts in place of another
MutChars == {Asc("*"), Asc(","), Asc("$"), Asc("G"), Asc("0"), Asc("3")}

Mutations(line) ==
  {[line EXCEPT ![k] = c] : k \in 1..Len(line), c \in MutChars}
    \cup {SubSeq(line, 1, n) : n \in 0..Len(line)}

TestLines ==
  Mutations(Fix3D) \cup Mutations(NoFix) \cup OtherLines \cup {LongLine}

RxScenario == [NoEnv EXCEPT !.rate = 4, !.adc = 500]

RxInit ==
  /\ IsState(BootState(DAC_MIDPOINT, EE_ERASED))
  /\ env = RxScenario

\* a line starts to arrive
RxLine(line) ==
  /\ wire = <<>>
  /\ pc = "top"
  /\ last_pps_count = pps_count
  /\ sample_window_pos = SAMPLE_SECONDS
  /\ env.gps_changes < MaxGpsChanges
  /\ wire' = line \o <<CR, LF>>
  /\ UNCHANGED <<fwvars, pc, loc, hwvars, rx_buf, rx_str_len, env, obs, txvars>>

\* its next character is received
RxChar ==
  /\ wire # <<>>
  /\ USART0_RX_vect(Head(wire))
  /\ wire' = Tail(wire)

RxPpsEdge ==
  /\ wire = <<>>
  /\ pc = "top"
  /\ (gps_status \div 2) % 2 = 1
  /\ PpsEdgeOf(MaxRxPps)

RxForeground ==
  /\ wire = <<>>
  /\ Foreground

RxNext ==
  \/ RxForeground
  \/ RxPpsEdge
  \/ \E line \in TestLines : RxLine(line)
  \/ RxChar

SpecRx == RxInit /\ [][RxNext]_vars


----------------------------------------------------------------------------
(* The NV trim cell over a reset, for every word.  A settled update        *)
(* (current_error = 0) whose trim word is w hands w to writeDacValue and,  *)
(* when the gate of line 718 lets it, to eeprom_write_word; the MCU is     *)
(* reset afterwards.                                                       *)

\* what the cell holds at power-on: erased, or a word of an earlier run
NvStart == {EE_ERASED, DAC_MIDPOINT}

NvInit ==
  \E stored \in NvStart :
    /\ IsState(BootState(DAC_MIDPOINT, stored))
    /\ env = NoEnv

\* lines 687-719 of the first update of a run that persists its word w
NvPersist(w) ==
  LET tp == ToInt(w - DAC_MIDPOINT) * 100
      dac == writeDacValue(last_dac_value, dac_phys, w)
  IN
  /\ TrimValue(tp) = w
  /\ TRUE \in EEGate(0, ee_word, w)
  /\ trim_percent' = tp
  /\ last_dac_value' = dac[1]
  /\ dac_phys' = dac[2]
  /\ ee_word' = w
  /\ obs' = [DacObs(obs, last_dac_value, w, dac[3]) EXCEPT !.persisted = TRUE]
  /\ UNCHANGED <<phase_error_sum, phase_error_count, sample_buffer,
                 valid_samples, sample_window_pos, timer_hibits, pps_count,
                 sample_count, gps_status, lock, total_error, last_adc_value,
                 erroneous_delta, last_timer_val, last_pps_count,
                 last_sample_count, pc, loc, tcnt1, tov1, icr1, icf1, rxvars,
                 env, txvars>>

NvReset(cause) ==
  /\ obs.persisted \/ env.resets > 0
  /\ Reset(cause)

\* a run persists one word, any word
NvUpdate ==
  /\ pc = "top"
  /\ env.resets = 0
  /\ ~obs.persisted
  /\ \E w \in 0..(W16 - 1) : NvPersist(w)

NvNext ==
  \/ NvUpdate
  \/ \E cause \in ResetCauses : NvReset(cause)

SpecNv == NvInit /\ [][NvNext]_vars


----------------------------------------------------------------------------
(* The receiver loses and regains its fix at any second of a run.  The     *)
(* foreground finishes its pass before the next event, so that bit 0 of    *)
(* gps_status changes in handleGPS only.                                   *)

MaxSpanPps == 56
MaxSpanChanges == 3

SpanScenario ==
  { [NoEnv EXCEPT !.rate = 4, !.adc = 512],
    [NoEnv EXCEPT !.rate = 120, !.adc = 512] }

SpanInit ==
  /\ IsState(BootState(DAC_MIDPOINT, EE_ERASED))
  /\ env \in SpanScenario

SpanSentence(gps_now_valid) ==
  /\ pc = "top"
  /\ last_pps_count = pps_count
  /\ (gps_status \div 2) % 2 = 1 \/ env.gps_changes = 0
  /\ gps_now_valid # gps_status % 2
  /\ env.gps_changes < MaxSpanChanges
  /\ USART0_RX(gps_now_valid)

SpanPpsEdge ==
  /\ pc = "top"
  /\ (gps_status \div 2) % 2 = 1
  /\ PpsEdgeOf(MaxSpanPps)

SpanNext ==
  \/ Foreground
  \/ \E gps_now_valid \in {0, 1} : SpanSentence(gps_now_valid)
  \/ SpanPpsEdge

SpecSpan == SpanInit /\ [][SpanNext]_vars


----------------------------------------------------------------------------
(* The diagnostic transmitter: tx_char and ISR(USART0_UDRE_vect) over the  *)
(* ring txbuf.  Boot queues its output with interrupts disabled and then   *)
(* executes sei(); each pass of the loop starts at wdt_reset and queues up *)
(* to MaxPassChars characters.  Only the number of characters matters.     *)

TX_BUF_LEN == 96
MaxPassChars == 1

RECURSIVE Digits(_, _)
\* the number of digits itoa/ltoa write for n >= 0 in the given radix
Digits(n, radix) == IF n < radix THEN 1 ELSE 1 + Digits(n \div radix, radix)

\* labs()
labs(val) == IF val < 0 THEN -val ELSE val

\* the number of characters tx_fp(val, 2) queues
FpChars(val) ==
  LET abs_val == labs(val)
      frac_part == abs_val % 100
  IN 1 + Digits(abs_val \div 100, 10) + 1
       + (IF frac_part < 10 THEN 1 ELSE 0) + Digits(frac_part, 10)

\* the characters of the tag printed for a reset cause
TagChars(cause) == IF cause = "EXTRF" THEN 9 ELSE 8

RECURSIVE TagsChars(_)
TagsChars(causes) ==
  IF causes = {} THEN 0
  ELSE LET c == CHOOSE x \in causes : TRUE
       IN TagChars(c) + TagsChars(causes \ {c})

\* lines 506-530: the number of characters boot queues, for the reset
\* causes flagged in MCUSR and the word in the NV trim cell
BootChars(causes, stored) ==
  7 + TagsChars(causes) + 5 + Digits(BootTrimValue(stored), 16) + 5
    + FpChars(DAC_SIGN * BootTrimPercent(BootTrimValue(stored))) + 2

\* the words the NV trim cell is tried with: the erased cell, and the word
\* with the longest output (four hexadecimal digits, TP=+32766.00)
TxWords == {EE_ERASED, 65534}

\* int buf_in_use = txbuf_head - txbuf_tail; if (< 0) += TX_BUF_LEN
BufInUse(head, tail) ==
  LET d == ToInt(head - tail) IN IF d < 0 THEN d + TX_BUF_LEN ELSE d

\* A variant of the test of the wait loop without the margin of two
\* (sensitivity of C24_DiagnosticOutputNeverHangs to line 319)
TxFull_NoMargin(buf_in_use) == buf_in_use >= TX_BUF_LEN

\* while (buf_in_use >= TX_BUF_LEN - 2)
TxFull(buf_in_use) == buf_in_use >= TX_BUF_LEN - 2

\* if (++index == TX_BUF_LEN) index = 0
NextIndex(index) == IF index + 1 = TX_BUF_LEN THEN 0 ELSE index + 1

TxInit ==
  \E causes \in SUBSET ResetCauses, stored \in TxWords :
    /\ IsState([BootState(DAC_MIDPOINT, stored) EXCEPT
                  !.sreg_i = FALSE,
                  !.tx = [at |-> "read", todo |-> BootChars(causes, stored),
                          buf_in_use |-> 0]])
    /\ env = NoEnv

TxFrame ==
  UNCHANGED <<fwvars, pc, loc, hwvars, rxvars, env>>

\* tx_char, lines 313-319: one turn of the wait loop (the watchdog is
\* petted); buf_in_use is dead once the loop is left
Tx_read ==
  /\ tx.at = "read"
  /\ tx' = IF TxFull(BufInUse(txbuf_head, txbuf_tail))
           THEN [tx EXCEPT !.buf_in_use = BufInUse(txbuf_head, txbuf_tail)]
           ELSE [tx EXCEPT !.buf_in_use = 0, !.at = "store"]
  /\ UNCHANGED <<txbuf_head, txbuf_tail, udrie, sreg_i, obs>>
  /\ TxFrame

\* line 321: txbuf[txbuf_head] = c
Tx_store ==
  /\ tx.at = "store"
  /\ tx' = [tx EXCEPT !.at = "inc"]
  /\ obs' = [obs EXCEPT !.unsent = @ + 1]
  /\ UNCHANGED <<txbuf_head, txbuf_tail, udrie, sreg_i>>
  /\ TxFrame

\* lines 322-326: the index moves on, atomically
Tx_inc ==
  /\ tx.at = "inc"
  /\ txbuf_head' = NextIndex(txbuf_head)
  /\ tx' = [tx EXCEPT !.at = "en"]
  /\ UNCHANGED <<txbuf_tail, udrie, sreg_i, obs>>
  /\ TxFrame

\* line 327, and the return to the caller: the next character, the end of
\* the boot output (sei(), line 534) or the end of the pass
Tx_en ==
  /\ tx.at = "en"
  /\ udrie' = TRUE
  /\ tx' = [tx EXCEPT !.todo = @ - 1,
                      !.at = IF tx.todo > 1 THEN "read" ELSE "top"]
  /\ sreg_i' = (sreg_i \/ tx.todo = 1)
  /\ UNCHANGED <<txbuf_head, txbuf_tail, obs>>
  /\ TxFrame

\* the top of the loop: wdt_reset, then a pass that queues n characters
Tx_pass(n) ==
  /\ tx.at = "top"
  /\ sreg_i
  /\ tx' = [tx EXCEPT !.todo = n, !.at = "read"]
  /\ UNCHANGED <<txbuf_head, txbuf_tail, udrie, sreg_i, obs>>
  /\ TxFrame

TxForeground ==
  \/ Tx_read
  \/ Tx_store
  \/ Tx_inc
  \/ Tx_en
  \/ \E n \in 1..MaxPassChars : Tx_pass(n)

\* ISR(USART0_UDRE_vect): entered when interrupts and UDRIE0 are enabled and
\* the data register is empty
USART0_UDRE ==
  /\ sreg_i
  /\ udrie
  /\ IF txbuf_head = txbuf_tail
     THEN /\ udrie' = FALSE
          /\ UNCHANGED <<txbuf_tail, obs>>
     ELSE /\ txbuf_tail' = NextIndex(txbuf_tail)
          /\ obs' = [obs EXCEPT !.unsent = @ - 1]
          /\ UNCHANGED udrie
  /\ UNCHANGED <<txbuf_head, sreg_i, tx>>
  /\ TxFrame

TxNext ==
  \/ TxForeground
  \/ USART0_UDRE

SpecTx == TxInit /\ [][TxNext]_vars

\* the transmitter empties its data register again and again, and the
\* foreground keeps running
SpecTxLive == SpecTx /\ WF_vars(USART0_UDRE) /\ WF_vars(TxForeground)


----------------------------------------------------------------------------
(* Properties *)

\* the mathematical absolute value
Mag(x) == IF x < 0 THEN -x ELSE x

\* what an update changes
UpdateState == <<total_error, trim_percent, last_dac_value, dac_phys, ee_word>>

\* what a rejected window must leave alone
LoopState == <<sample_buffer, valid_samples, sample_count, total_error,
               trim_percent, last_dac_value, dac_phys, ee_word>>

\* the foreground's positions from the top of a pass to the outlier report
ReportPcs == {"top", "flag_ld", "flag_st", "flag_log", "pps", "pps_st",
              "err", "err_clr"}

\* C1: from a Locked3D->Unlocked transition until the foreground begins the
\* update for a window that closed after it, total_error = 0 and lock = 0.
C1_ZeroIntegratorAfterUnlock ==
  obs.after_unlock => (total_error = 0 /\ lock = 0)

\* C2: after every reset, once boot has completed, the word the DAC chip
\* holds is the NV trim word (0x8000 for an erased cell) and trim_percent is
\* (that word - 0x8000) * 100, whatever the chip held before the reset.
C2_BootRestoresDac ==
  [][env'.resets # env.resets =>
       /\ dac_phys' = BootTrimValue(ee_word')
       /\ trim_percent' = (BootTrimValue(ee_word') - DAC_MIDPOINT) * 100]_vars

\* C3: a window that closes with valid_samples >= 0 is accepted if and only
\* if |delta| <= MAX_DELTA, and a rejected delta is recorded.
C3_AcceptedIffWithinMaxDelta ==
  /\ obs.close = "accepted" => Mag(obs.delta) <= MAX_DELTA
  /\ obs.close = "rejected" => Mag(obs.delta) > MAX_DELTA

\* DAC_SIGN * (current_error * K_P + total_error * K_I) / 10000 in unbounded
\* integers, truncating.  K_P = 3 * 10000 + 1400 keeps every intermediate
\* value of this evaluation small.
AdjExact(current_error, te) ==
  LET a == DAC_SIGN * 3 * current_error
      r == DAC_SIGN * ((K_P - 30000) * current_error + K_I * te)
      q == a + (r \div 10000)
  IN  IF q >= 0 \/ r % 10000 = 0 THEN q ELSE q + 1

\* C4: the adjustment computed in 32-bit arithmetic is the exact one, so a
\* window with current_error > 0 and total_error >= 0 raises trim_percent.
C4_AdjustmentIsExact ==
  pc = "pi" =>
    /\ AdjVal(loc.current_error, total_error)
         = AdjExact(loc.current_error, total_error)
    /\ (loc.current_error > 0 /\ total_error >= 0)
         => Sub32(trim_percent, AdjVal(loc.current_error, total_error))
              > trim_percent

\* C5: every word handed to the DAC is in 0..0xFFFF and is
\* floor(trim_percent / 100) + 0x8000, without wrap-around.
C5_DacWordIsFloor ==
  /\ obs.dac_req \in 0..65535
  /\ obs.dac_req = (trim_percent \div 100) + DAC_MIDPOINT

\* C6: a capture serviced within half a counter period yields the true tick
\* count modulo 2^32, and once no overflow is pending the high half counts
\* exactly the overflows that happened.
C6_CapturedTickIsTrue ==
  /\ ~icf1 => obs.timer_val = Word32(env.cap_hi % W16, icr1)
  /\ ~tov1 => timer_hibits = env.true_hi % W16

\* a capture was serviced with the overflow still pending and the local
\* increment applied
C6_LocalIncrementUsed ==
  /\ ~icf1
  /\ tov1
  /\ icr1 < HALF_PERIOD
  /\ env.cap_hi = env.true_hi
  /\ env.cap_hi = timer_hibits + 1
  /\ obs.timer_val = Word32(env.cap_hi, icr1)

\* C7: a foreground step changes total_error, trim_percent, the DAC word or
\* the NV trim word only in a pass that saw sample_count advance and found
\* valid_samples >= 1, never in the pass for the first window after boot or
\* after a lock.
C7_UpdateOnlyForValidWindow ==
  [][(pc' # pc /\ env'.resets = env.resets /\ UpdateState' # UpdateState)
       => (obs.saw_adv /\ obs.saw_valid /\ last_sample_count # obs.warm_sc)]_vars

\* an update has run for a window after the warm-up window
C7_UpdateDone ==
  /\ pc = "ee"
  /\ obs.saw_adv
  /\ obs.saw_valid
  /\ obs.warm_sc >= 1
  /\ last_sample_count > obs.warm_sc
  /\ total_error # 0

\* C8: the Locked3D->Unlocked transition of handleGPS sets valid_samples = -1,
\* sample_window_pos = W, total_error = 0 and lock = 0 in one ISR step and
\* leaves trim_percent, last_dac_value and the NV trim word unchanged.
C8_UnlockResetsInOneStep ==
  [][(pc' = pc /\ env'.resets = env.resets
        /\ gps_status % 2 = 1 /\ gps_status' % 2 = 0)
       => /\ valid_samples' = -1
          /\ sample_window_pos' = SAMPLE_SECONDS
          /\ total_error' = 0
          /\ lock' = 0
          /\ UNCHANGED <<trim_percent, last_dac_value, dac_phys, ee_word>>]_vars

\* the receiver has unlocked after the loop had steered the DAC
C8_UnlockedAfterUpdate ==
  /\ obs.after_unlock
  /\ gps_status % 2 = 0
  /\ valid_samples = -1
  /\ total_error = 0
  /\ env.stored = EE_ERASED
  /\ trim_percent # 0
  /\ last_dac_value # DAC_MIDPOINT

\* C9: the NV trim word is written in a window update exactly when
\* |current_error| < 100 and |stored word - trim_value| > EE_UPDATE_OFFSET,
\* the magnitudes being the mathematical ones, and the word written is the
\* trim_value sent to the DAC.
C9_NvWriteGate ==
  [][(pc = "ee" /\ pc' = "top" /\ env'.resets = env.resets)
       => /\ (ee_word' # ee_word)
               <=> (Mag(loc.current_error) < 100
                    /\ Mag(ee_word - loc.trim_value) > EE_UPDATE_OFFSET)
          /\ ee_word' # ee_word => ee_word' = loc.trim_value]_vars

\* C10: a rejected window close changes none of the buffer, the fill count,
\* sample_count, the integrator, the trim, the DAC word and the NV word, in
\* the ISR or in the foreground pass that reports it; the ISR records the
\* delta and restarts the window at this capture, the pass clears the flag.
C10_RejectedWindowLeavesLoopState ==
  [][/\ (pc' = pc /\ env'.resets = env.resets
           /\ erroneous_delta' # erroneous_delta)
          => /\ UNCHANGED LoopState
             /\ obs'.close = "rejected"
             /\ erroneous_delta' = obs'.delta
             /\ sample_window_pos' = SAMPLE_SECONDS
             /\ last_timer_val' = obs'.timer_val
     /\ (pc \in ReportPcs /\ pc' # pc /\ env'.resets = env.resets)
          => /\ UNCHANGED LoopState
             /\ pc = "err_clr" => (erroneous_delta' = 0 /\ pc' = "top")]_vars

\* an outlier has been rejected by the ISR and reported by the foreground
C10_RejectReported ==
  /\ obs.close = "rejected"
  /\ Mag(obs.delta) > MAX_DELTA
  /\ valid_samples >= 0
  /\ erroneous_delta = 0
  /\ pc = "top"
  /\ last_pps_count = pps_count

\* C11: accepted samples are kept oldest-first: after m accepted samples since
\* the warm-up skip the buffer holds the min(m, K) most recent deltas in
\* arrival order, the fill count being min(m, K).
C11_BufferHoldsRecentSamples ==
  valid_samples >= 0 =>
    /\ valid_samples = Len(obs.hist)
    /\ \A n \in 1..Len(obs.hist) : sample_buffer[n - 1] = obs.hist[n]

\* the sum of the first n buffered samples, in unbounded integers
RECURSIVE BufferSum(_, _)
BufferSum(buf, n) == IF n <= 0 THEN 0 ELSE BufferSum(buf, n - 1) + buf[n - 1]

\* the grade the specification gives for a fill count and a drift
GradeOf(vs, sd) ==
  IF vs < SAMPLE_COUNT \/ Mag(sd) >= 1250 THEN 0
  ELSE IF Mag(sd) >= 125 THEN 1
  ELSE IF Mag(sd) >= 25 THEN 2
  ELSE 3

\* every accepted sample since the warm-up skip lies within MAX_DELTA
SamplesInRange == \A n \in 1..Len(obs.hist) : Mag(obs.hist[n]) <= MAX_DELTA

\* C12: after the foreground has processed a window whose buffered samples
\* lie within MAX_DELTA, lock is the grade of sample_drift = sum * 10 / K
\* (truncating): 0 below K samples or from 1250, 1 from 125, 2 from 25, else 3.
C12_LockGradeFromDrift ==
  (pc = "chk" /\ SamplesInRange) =>
    lock = GradeOf(valid_samples,
                   TruncDiv(BufferSum(sample_buffer, valid_samples) * 10,
                            SAMPLE_COUNT))

\* a full buffer has been graded 2: nine samples of 0 and one of 100
C12_GradedBetter ==
  /\ pc = "chk"
  /\ valid_samples = SAMPLE_COUNT
  /\ SamplesInRange
  /\ BufferSum(sample_buffer, SAMPLE_COUNT) = 100
  /\ lock = 2

\* C13: in every state outside the capture ISR, valid_samples is -1 or in
\* 0..K and 1 <= sample_window_pos <= W.
C13_FillCountAndWindowPosInRange ==
  /\ valid_samples \in {-1} \cup (0..SAMPLE_COUNT)
  /\ sample_window_pos \in 1..SAMPLE_SECONDS

\* the buffer had filled and rotated when the fix was lost
C13_UnlockedFromFull ==
  /\ obs.after_unlock
  /\ valid_samples = -1
  /\ sample_count > SAMPLE_COUNT + 1
  /\ sample_window_pos = SAMPLE_SECONDS

\* The run of C14: first lock since power-on, delta = +100 in every window
\* (4 ticks per second fast), every phase reading at the midpoint, and the
\* foreground in the update for the n-th window after the warm-up, n in 1..K
WindowN == sample_count - 1

ConstantDeltaRun ==
  /\ env.rate = 4
  /\ env.adc = PHASE_ADC_MIDPOINT
  /\ env.drifts = 0
  /\ env.resets = 0
  /\ env.gps_changes = 1
  /\ last_sample_count = sample_count
  /\ WindowN \in 1..SAMPLE_COUNT

\* C14 as stated: after the n-th window sample_drift = 100, current_error =
\* 1000, total_error = 1000 * n and
\* adj = DAC_SIGN * (1000 * K_P + 1000 * n * K_I) / 10000.
C14_ConstantDeltaAsStated ==
  ConstantDeltaRun =>
    /\ pc = "cls" => loc.sample_drift = 100
    /\ pc = "pi" =>
         /\ loc.current_error = 1000
         /\ total_error = 1000 * WindowN
         /\ AdjVal(loc.current_error, total_error)
              = TruncDiv(DAC_SIGN * (1000 * K_P + 1000 * WindowN * K_I), 10000)

\* C14, amended: the buffer holds n samples of 100 and the sum is divided by
\* K, not by n, so after the n-th window sample_drift = 100 * n,
\* current_error = 1000 * n, total_error = 500 * n * (n + 1) and
\* adj = DAC_SIGN * (1000 * n * K_P + 500 * n * (n + 1) * K_I) / 10000.
C14_CurveOfConstantDelta ==
  ConstantDeltaRun =>
    /\ pc = "cls" => loc.sample_drift = 100 * WindowN
    /\ pc = "pi" =>
         /\ loc.current_error = 1000 * WindowN
         /\ total_error = 500 * WindowN * (WindowN + 1)
         /\ AdjVal(loc.current_error, total_error)
              = TruncDiv(DAC_SIGN * (1000 * WindowN * K_P
                                     + 500 * WindowN * (WindowN + 1) * K_I),
                         10000)

\* the update for the tenth window of the run
C14_TenthWindow ==
  /\ ConstantDeltaRun
  /\ pc = "pi"
  /\ WindowN = SAMPLE_COUNT
  /\ valid_samples = SAMPLE_COUNT
  /\ loc.current_error = 10000
  /\ total_error = 55000

\* C15: writeDacValue transfers the word to the chip if and only if it
\* differs from last_dac_value, and last_dac_value is the requested word
\* afterwards; every run of consecutive requests for the same word makes
\* exactly one transfer, and once the chip has been written last_dac_value is
\* the word it holds.
C15_OneTransferPerRun ==
  obs.requested =>
    /\ obs.xfer = 1 <=> obs.req_changed
    /\ last_dac_value = obs.dac_req
    /\ obs.run_xfers = 1
    /\ obs.wrote => last_dac_value = dac_phys

\* a step of ISR(USART0_RX_vect) that takes the status from Locked3D to
\* Unlocked
UnlockStep ==
  /\ pc' = pc
  /\ env'.resets = env.resets
  /\ gps_status % 2 = 1
  /\ gps_status' % 2 = 0

\* a step of ISR(TIMER1_CAPT_vect) that closes a window while the skip marker
\* is armed
ArmedCloseStep ==
  /\ pc' = pc
  /\ env'.resets = env.resets
  /\ pps_count' # pps_count
  /\ sample_window_pos = 1
  /\ valid_samples = -1

\* C16: right after every Locked3D->Unlocked transition phase_error_sum = 0
\* and phase_error_count = 0.
C16_UnlockClearsPhaseAccumulator ==
  [][UnlockStep => (phase_error_sum' = 0 /\ phase_error_count' = 0)]_vars

\* C18: whenever the foreground computes average_phase_error for a closed
\* window, the accumulator holds the W phase errors of that window.
C18_AverageOverOneWindow ==
  pc = "smp_st" => phase_error_count = SAMPLE_SECONDS

\* C19 as stated: an out-of-range window that closes with valid_samples = -1
\* is recorded in erroneous_delta and leaves valid_samples at -1.
C19_OutlierKeepsSkipArmed ==
  [][(ArmedCloseStep /\ Mag(obs'.delta) > MAX_DELTA)
       => (valid_samples' = -1 /\ erroneous_delta' = obs'.delta)]_vars

\* C19, amended: a window that closes with valid_samples = -1 is consumed as
\* the warm-up whatever its delta: valid_samples becomes 0, sample_count
\* advances, erroneous_delta and the buffer are unchanged.
C19_WarmupConsumesAnyDelta ==
  [][ArmedCloseStep
       => /\ valid_samples' = 0
          /\ sample_count' = sample_count + 1
          /\ obs'.close = "warmup"
          /\ UNCHANGED <<erroneous_delta, sample_buffer>>]_vars

\* an out-of-range window has been consumed as the warm-up
C19_OutlierConsumed ==
  /\ obs.close = "warmup"
  /\ Mag(obs.delta) > MAX_DELTA
  /\ valid_samples = 0
  /\ erroneous_delta = 0

\* C20: trim_percent, the commanded DAC word and the NV trim word are
\* constant over every interval in which bit 0 of gps_status is 0.
C20_NoDisciplineWhileUnlocked ==
  [][(gps_status % 2 = 0 /\ gps_status' % 2 = 0 /\ env'.resets = env.resets)
       => UNCHANGED <<trim_percent, last_dac_value, dac_phys, ee_word>>]_vars

RECURSIVE XorAll(_)
\* the XOR of the bytes of a sequence
XorAll(bytes) ==
  IF bytes = <<>> THEN 0 ELSE XorByte(Head(bytes), XorAll(Tail(bytes)))

\* the value of a hexadecimal digit, -1 for any other character
HexDigit(c) ==
  IF c \in 48..57 THEN c - 48
  ELSE IF c \in 65..70 THEN c - 55
  ELSE IF c \in 97..102 THEN c - 87
  ELSE -1

\* the position of the first '*' after the '$' of a line, 0 without one
StarAt(line) ==
  IF \E k \in 2..Len(line) : line[k] = Star
  THEN CHOOSE k \in 2..Len(line) :
         line[k] = Star /\ \A j \in 2..(k - 1) : line[j] # Star
  ELSE 0

\* the line carries the checksum of the bytes between its '$' and its '*'
CarriesItsChecksum(line) ==
  LET k == StarAt(line)
  IN /\ k # 0
     /\ k + 2 <= Len(line)
     /\ HexDigit(line[k + 1]) # -1
     /\ HexDigit(line[k + 2]) # -1
     /\ 16 * HexDigit(line[k + 1]) + HexDigit(line[k + 2])
          = XorAll(SubSeq(line, 2, k - 1))

\* a line the receiver has to drop
Malformed(line) ==
  \/ Len(line) < 9
  \/ ~CarriesItsChecksum(line)
  \/ SubSeq(line, 1, 6) # GPGSA

\* the character that ends the received line is being served
LineEnds == wire # <<>> /\ Head(wire) \in {CR, LF} /\ rx_str_len > 0

\* C17: a received line that is too short, has no '*' with two characters
\* after it, carries a wrong checksum or does not start with $GPGSA leaves
\* the status, the sample bookkeeping, the integrator, the lock grade, the
\* trim and the DAC word unchanged, and the receive buffer is reset after it.
C17_MalformedLineDropped ==
  [][(LineEnds /\ Malformed(rx_buf))
       => /\ UNCHANGED <<gps_status, valid_samples, sample_window_pos,
                         total_error, lock, trim_percent, last_dac_value,
                         dac_phys>>
          /\ rx_str_len' = 0
          /\ rx_buf' = <<>>]_vars

\* C21: outside the serial-receive ISR, bit 0 of gps_status is the fix
\* indicator of the most recent valid $GPGSA sentence, whatever the
\* interleaving of that ISR with the foreground's gps_status |= 0x2.
C21_StatusIsLastFix == gps_status % 2 = obs.fix

\* C22: for every word w the persistence step writes to the NV trim cell, a
\* following reset restores w: the cell reads back w, boot commands the DAC
\* to w and sets trim_percent = (w - 0x8000) * 100.
C22_ResetRestoresPersistedWord ==
  [][(env'.resets # env.resets /\ obs.persisted)
       => /\ ee_word' = ee_word
          /\ last_dac_value' = ee_word
          /\ dac_phys' = ee_word
          /\ trim_percent' = (ee_word - DAC_MIDPOINT) * 100]_vars

\* a step of ISR(TIMER1_CAPT_vect) that stores a delta in sample_buffer
StoreStep ==
  /\ env'.resets = env.resets
  /\ sample_count' # sample_count
  /\ valid_samples >= 0

\* the captures of the span that ends now: SAMPLE_SECONDS + 1 of them, the
\* first one a window close, the others taken locked with no unlocked
\* interval before them
LockedSpan(caps) ==
  /\ Len(caps) = SAMPLE_SECONDS + 1
  /\ caps[1].locked /\ caps[1].close
  /\ \A k \in 2..(SAMPLE_SECONDS + 1) : caps[k].locked /\ ~caps[k].gap
  /\ \A k \in 2..SAMPLE_SECONDS : ~caps[k].close

\* C23: every delta stored in sample_buffer is the tick difference of two
\* captures SAMPLE_SECONDS capture-ISR executions apart, all taken locked,
\* the first of them the previous window close; any other span is consumed
\* by the warm-up skip and never stored.
C23_StoredDeltaSpansLockedWindow ==
  [][StoreStep
       => /\ LockedSpan(obs'.caps)
          /\ obs'.delta = WindowDelta(obs'.caps[SAMPLE_SECONDS + 1].tv,
                                      obs'.caps[1].tv)
          /\ \E n \in 0..(SAMPLE_COUNT - 1) :
               sample_buffer'[n] = ToInt(obs'.delta)]_vars

\* a delta has been stored after the receiver lost and regained its fix
C23_StoredAfterRelock ==
  /\ obs.close = "accepted"
  /\ LockedSpan(obs.caps)
  /\ valid_samples = 1
  /\ env.gps_changes = 3
  /\ env.idle > 0

\* the characters queued and not yet sent are those between the indices
RingHoldsUnsent ==
  /\ txbuf_head \in 0..(TX_BUF_LEN - 1)
  /\ txbuf_tail \in 0..(TX_BUF_LEN - 1)
  /\ obs.unsent < TX_BUF_LEN
  /\ obs.unsent = (txbuf_head - txbuf_tail
                   + (IF tx.at = "inc" THEN 1 ELSE 0)) % TX_BUF_LEN

\* C24: the boot output never fills the ring, so boot reaches sei(); after
\* that, with the transmit-ready interrupt served, every wait in tx_char
\* ends and the loop is at wdt_reset again and again; the indices stay
\* within the ring and no unsent character is overwritten.
C24_DiagnosticOutputNeverHangs ==
  /\ [](RingHoldsUnsent /\ (~sreg_i => ~TxFull(BufInUse(txbuf_head, txbuf_tail))))
  /\ <>sreg_i
  /\ []<>(tx.at = "top" /\ sreg_i)

\* the foreground waits in tx_char for room in the ring
C24_WaitingForRoom ==
  /\ sreg_i
  /\ tx.at = "read"
  /\ tx.buf_in_use = TX_BUF_LEN - 2
  /\ TxFull(BufInUse(txbuf_head, txbuf_tail))

====
